---- MODULE Spec2Model ----
\* Model of src/app.py: the Streamlit button handler that reads a column of a
\* Google Sheet, synthesises speech for every non-empty data row through a
\* rate-limited HTTP API, puts the audio in S3 and writes the object's URL back
\* to the sheet.
\*
\* Python strings are modelled as sequences of one-or-more-character pieces
\* (<<>> is the empty string), so that split, int() and f-string formatting are
\* computed rather than assumed.  One action is one segment of the handler
\* between two blocking calls to the outside world (sheet, HTTP API, sleep, S3).
EXTENDS Integers, Sequences, FiniteSets, TLC

\* ------------------------------------------------------------------ bounds
\* Rows of the worksheet (row 1 is the header row).
MaxRows == 4
\* Times the button is pressed.
MaxRuns == 2
\* Largest wait, in seconds, a rate-limit message suggests.
MaxWait == 3

\* ------------------------------------------------------- program constants
\* generate_and_upload_tts(..., max_retries=5)
max_retries == 5

STATUS_OK == 200
STATUS_RATE_LIMITED == 429
\* Statuses the API answers with other than 200 and 429.
OtherStatuses == {404, 500}

Cols == 1..2
Rows == 1..MaxRows

\* --------------------------------------------------------- string helpers
DigitChars == <<"0", "1", "2", "3", "4", "5", "6", "7", "8", "9">>

IsDigit(c) == \E d \in 1..10 : DigitChars[d] = c

DigitVal(c) == (CHOOSE d \in 1..10 : DigitChars[d] = c) - 1

RECURSIVE Digits(_)
\* str(n) / f"{n}" of an integer: its decimal digits, most significant first.
Digits(n) ==
    IF n < 0 THEN <<"-">> \o Digits(0 - n)
    ELSE IF n < 10 THEN <<DigitChars[n + 1]>>
    ELSE Digits(n \div 10) \o <<DigitChars[(n % 10) + 1]>>

RECURSIVE DigitsValue(_)
DigitsValue(ds) ==
    IF ds = <<>> THEN 0
    ELSE 10 * DigitsValue(SubSeq(ds, 1, Len(ds) - 1)) + DigitVal(ds[Len(ds)])

\* int(token): an optional sign followed by at least one digit, else ValueError.
ParseInt(tok) ==
    LET signed == tok # <<>> /\ tok[1] \in {"-", "+"}
        body   == IF signed THEN Tail(tok) ELSE tok
        ok     == body # <<>> /\ \A i \in 1..Len(body) : IsDigit(body[i])
    IN  [ok  |-> ok,
         val |-> IF ~ok THEN 0
                 ELSE IF signed /\ tok[1] = "-" THEN 0 - DigitsValue(body)
                 ELSE DigitsValue(body)]

RECURSIVE Split(_)
\* s.split(" "): cuts at every single space; "" gives [""].
Split(s) ==
    IF \A i \in 1..Len(s) : s[i] # " " THEN <<s>>
    ELSE LET i == CHOOSE k \in 1..Len(s) :
                      s[k] = " " /\ \A j \in 1..(k - 1) : s[j] # " "
         IN  <<SubSeq(s, 1, i - 1)>> \o Split(SubSeq(s, i + 1, Len(s)))

\* ------------------------------------------------------- column addressing
Upper(c) == IF c = "a" THEN "A" ELSE IF c = "b" THEN "B" ELSE c

\* str.upper() of a whole string.
UpperStr(s) == [i \in 1..Len(s) |-> Upper(s[i])]

Ord(c) == CASE c = "A" -> 65 [] c = "B" -> 66 [] c = "a" -> 97 [] c = "b" -> 98
            [] c = "1" -> 49 [] OTHER -> 0

\* ord(letter.upper()) - ord('A') + 1; ord() of a string that is not one
\* character long raises TypeError.
column_letter_to_index(letter) ==
    IF Len(UpperStr(letter)) # 1 THEN [ok |-> FALSE, index |-> 0]
    ELSE [ok |-> TRUE, index |-> Ord(UpperStr(letter)[1]) - Ord("A") + 1]

\* What the operator types in the three text inputs.
SpreadsheetIds == {<<>>, <<"sheet">>}
ColumnInputs == {<<>>, <<"A">>, <<"b">>, <<"1">>, <<"A", "B">>}

\* ------------------------------------------------------------ sheet cells
EmptyCell == <<>>
CellTexts == {EmptyCell, <<"a">>}

\* Python truthiness of a string: non-empty.
Truthy(s) == s # <<>>

\* str(text) of a value that already is a string.
Str(s) == s

\* sheet.col_values(col): the column's cells from row 1 to its last non-empty
\* row (the API does not return trailing empty cells).
col_values(sh, col) ==
    LET used == {r \in Rows : sh[col][r] # EmptyCell}
        n    == IF used = {} THEN 0 ELSE CHOOSE r \in used : \A q \in used : q <= r
    IN  [r \in 1..n |-> sh[col][r]]

\* sheet.update_cell(row, col, value)
update_cell(sh, row, col, value) == [sh EXCEPT ![col][row] = value]

\* texts[1:]
DataCells(ts) == IF Len(ts) <= 1 THEN <<>> ELSE SubSeq(ts, 2, Len(ts))

\* Mutant of RowNumber: the enumeration starts at 1.
RowNumberFromOne(k) == 1 + (k - 1)

\* enumerate(texts[1:], start=2)[k] for k = 1, 2, ...: the row number.
RowNumber(k) == 2 + (k - 1)

\* Mutant of HasText: empty cells are not told apart.
HasTextAlways(cell) == TRUE

\* if text:
HasText(cell) == Truthy(cell)

\* Mutant of FileName: the string is not an f-string, the row is not put in.
FileNameNoRow(n) == <<"tts_audio_row", "{row_num}", ".mp3">>

\* f"tts_audio_row{row_num}.mp3"
FileName(n) == <<"tts_audio_row">> \o Digits(n) \o <<".mp3">>

bucket_name == <<"bucket">>
aws_region == <<"region">>

\* f"https://{bucket_name}.s3.{region}.amazonaws.com/{file_name}"
S3Url(key) ==
    <<"https://">> \o bucket_name \o <<".s3.">> \o aws_region
        \o <<".amazonaws.com/">> \o key

\* s3_client.put_object(Bucket, Key, Body): the object under Key is replaced.
put_object(st, key, body) ==
    {o \in st : o.key # key} \cup {[key |-> key, body |-> body]}

\* ------------------------------------------------------- API responses
\* "Retrying in W seconds", shortened to "in W s".
RetryMsg(w) == <<"i", "n", " ">> \o Digits(w) \o <<" ", "s">>

\* The waits the API suggests.
Waits == {0, MaxWait}

Messages ==
    {RetryMsg(w) : w \in Waits}
        \cup {RetryMsg(-1),                      \* a negative wait
              <<"i", "n", " ", "x", " ", "s">>,  \* a word where the number goes
              <<"i", "n", " ", " ", "s">>,       \* two spaces: an empty token
              <<"x">>,                           \* a single word
              <<>>}                              \* the empty message

\* The kinds of 429 body: not JSON at all; JSON with no error message;
\* "message" null; "message" a string.
Response(s, k, m) == [status |-> s, kind |-> k, message |-> m]

NoResponse == Response(0, "none", <<>>)

Responses ==
    {Response(STATUS_OK, "audio", <<>>)}
        \cup {Response(s, "text", <<>>) : s \in OtherStatuses}
        \cup {Response(STATUS_RATE_LIMITED, k, <<>>) :
                 k \in {"notjson", "nomsg", "nullmsg"}}
        \cup {Response(STATUS_RATE_LIMITED, "msg", m) : m \in Messages}

\* response.json().get("error", {}).get("message", "")
ErrorMessage(r) ==
    CASE r.kind = "notjson" -> [raised |-> TRUE, none |-> FALSE, value |-> <<>>]
      [] r.kind = "nullmsg" -> [raised |-> FALSE, none |-> TRUE, value |-> <<>>]
      [] r.kind = "msg"     -> [raised |-> FALSE, none |-> FALSE, value |-> r.message]
      [] OTHER              -> [raised |-> FALSE, none |-> FALSE, value |-> <<>>]

\* time.sleep(secs) raises ValueError for a negative length.
SleepRaises(secs) == secs < 0

\* The 429 branch up to the sleep: "raise" when an error other than ValueError
\* leaves the function, "break" when ValueError is caught, "sleep" otherwise.
RateLimitStep(r) ==
    LET em == ErrorMessage(r)
        toks == Split(em.value)
        p == ParseInt(toks[Len(toks) - 1])
    IN  IF em.raised \/ em.none THEN [outcome |-> "raise", wait |-> 0]
        ELSE IF Len(toks) < 2 THEN [outcome |-> "raise", wait |-> 0]
        ELSE IF ~p.ok THEN [outcome |-> "break", wait |-> 0]
        ELSE IF SleepRaises(p.val) THEN [outcome |-> "break", wait |-> 0]
        ELSE [outcome |-> "sleep", wait |-> p.val]

\* Mutant of SleepDuration: the sleep returns at once.
SleepReturnsAtOnce(secs) == 0

\* time.sleep(secs) returns after at least secs seconds.
SleepDuration(secs) == secs

\* Mutant of Branch: a status other than 200 is handled as a rate limit.
BranchOtherAsRateLimited(r) ==
    IF r.status = STATUS_OK THEN "upload" ELSE "rate_limited"

\* Mutant of Branch: every status but 429 is taken for success.
BranchUploadUnlessRateLimited(r) ==
    IF r.status = STATUS_RATE_LIMITED THEN "rate_limited" ELSE "upload"

\* The if / elif / else on response.status_code.
Branch(r) ==
    CASE r.status = STATUS_OK -> "upload"
      [] r.status = STATUS_RATE_LIMITED -> "rate_limited"
      [] OTHER -> "other"

\* Mutant of MoreAttempts: the retry loop has no bound (while True).
MoreAttemptsUnbounded(a) == TRUE

\* Mutant of MoreAttempts: one attempt too many.
MoreAttemptsOffByOne(a) == a + 1 <= max_retries

\* for attempt in range(max_retries): is there an attempt after attempt a?
MoreAttempts(a) == a + 1 < max_retries

\* Mutant of NextIndex: the loop does not move on.
NextIndexStays(i) == i

\* The for loop takes the next element of texts[1:].
NextIndex(i) == i + 1

\* Mutant of TextsAfterWrite: texts is a live view of the source column.
TextsLiveView(ts, row, col, src, value) ==
    IF col = src /\ row <= Len(ts) THEN [ts EXCEPT ![row] = value] ELSE ts

\* texts is the list col_values returned before the loop: a cell write does
\* not touch it.
TextsAfterWrite(ts, row, col, src, value) == ts

\* Mutant of FinalSignal: a run with a failed row is reported as failed.
FinalSignalByRows(failed) == IF failed = {} THEN "success" ELSE "failure"

\* process_google_sheet(...) has returned: st.success, whatever the rows
\* that failed.
FinalSignal(failed) == "success"

\* Mutant of LoopDone: the loop has no exit.
LoopDoneNever(i, ts) == FALSE

\* Mutant of LoopDone: the loop is left before its last cell.
LoopDoneOneEarly(i, ts) == i >= Len(DataCells(ts))

\* for row_num, text in enumerate(texts[1:], start=2): there is no next cell.
LoopDone(i, ts) == i > Len(DataCells(ts))

\* Mutant of WriteErrorCaught: update_cell is called outside any try.
WriteErrorEscapes == FALSE

\* try: sheet.update_cell(...) except Exception as e: the error of the cell
\* write is caught inside the loop body.
WriteErrorCaught == TRUE

\* --------------------------------------------------------------- state
VARIABLES
    spreadsheet_id, source_input, target_input,
                    \* the three text inputs, as typed before the button is pressed
    pc,             \* where the handler is: idle, loop, post, sleep, put, write
    signal,         \* the run's final signal: none, running, success, failure, missing
    finals,         \* history: final signals (st.success, st.error of the button
                    \* handler) shown since the button was pressed
    metered,        \* history: whether the requests of a run are counted
    total,          \* history: synthesis requests issued in this run, if counted
    runs,           \* button presses so far
    sheet,          \* the worksheet: column -> row -> cell
    store,          \* the bucket: a set of [key, body]
    source_column, target_column, texts, idx,
    row_num, text, file_name, attempt, resp, wait_time, s3_url,
    nreq,           \* history: synthesis requests issued for the current row
    waited,         \* history: seconds slept since the last 429 was received
    reqRows,        \* history: rows a synthesis request was issued for, this run
    failedRows,     \* history: rows whose synthesis returned None, this run
    putRows,        \* history: rows whose audio was put in the bucket, this run
    writtenRows,    \* history: rows whose URL was written to the sheet, this run
    last            \* history: how the most recently left row ended (its last
                    \* response and what was reported), kept until the next
                    \* synthesis request is issued

inputVars == <<spreadsheet_id, source_input, target_input>>
envVars == <<sheet, store>>
runVars == <<source_column, target_column, texts, idx>>
rowVars == <<row_num, text, file_name, attempt, resp, wait_time, s3_url>>
histVars == <<nreq, waited, reqRows, failedRows, putRows, writtenRows, last>>
vars ==
    <<inputVars, pc, signal, finals, metered, total, runs, envVars, runVars,
      rowVars, histVars>>

KeysOf(st) == {o.key : o \in st}

\* if spreadsheet_id and source_column and target_column (the column inputs
\* are upper-cased where they are read)
AllInputs ==
    Truthy(spreadsheet_id) /\ Truthy(UpperStr(source_input))
        /\ Truthy(UpperStr(target_input))

NoRow == [row |-> 0, resp |-> NoResponse, reports |-> {}]

\* The sheet before the first run: text in column A, column B empty.
Sheets ==
    {sh \in [Cols -> [Rows -> CellTexts]] : \A r \in Rows : sh[2][r] = EmptyCell}

Start ==
    /\ spreadsheet_id \in SpreadsheetIds
    /\ source_input \in ColumnInputs
    /\ target_input \in ColumnInputs
    /\ pc = "idle"
    /\ signal = "none"
    /\ finals = 0
    /\ total = 0
    /\ runs = 0
    /\ sheet \in Sheets
    /\ store = {}
    /\ source_column = 0
    /\ target_column = 0
    /\ texts = <<>>
    /\ idx = 0
    /\ row_num = 0
    /\ text = <<>>
    /\ file_name = <<>>
    /\ attempt = 0
    /\ resp = NoResponse
    /\ wait_time = 0
    /\ s3_url = <<>>
    /\ nreq = 0
    /\ waited = 0
    /\ reqRows = {}
    /\ failedRows = {}
    /\ putRows = {}
    /\ writtenRows = {}
    /\ last = NoRow

\* The state after the script has drawn its page, the run's requests not
\* counted.
Init == Start /\ metered = FALSE

\* The same state, the requests of each run counted.
MeteredInit == Start /\ metered = TRUE

\* requests.post is called once more.
Count == total' = IF metered THEN total + 1 ELSE total

\* The locals of generate_and_upload_tts and of the loop body go out of scope.
ClearRow ==
    /\ row_num' = 0
    /\ text' = <<>>
    /\ file_name' = <<>>
    /\ attempt' = 0
    /\ resp' = NoResponse
    /\ wait_time' = 0
    /\ s3_url' = <<>>
    /\ nreq' = 0
    /\ waited' = 0

\* A button press starts the run's history afresh.
ClearRun ==
    /\ reqRows' = {}
    /\ failedRows' = {}
    /\ putRows' = {}
    /\ writtenRows' = {}
    /\ last' = NoRow

\* ------------------------------------------------------- button handler
\* The button is pressed with an input missing: "Please provide all inputs."
MissingInputs ==
    /\ pc = "idle"
    /\ runs < MaxRuns
    /\ ~AllInputs
    /\ runs' = runs + 1
    /\ signal' = "missing"
    /\ finals' = 0
    /\ total' = 0
    /\ source_column' = 0
    /\ target_column' = 0
    /\ texts' = <<>>
    /\ idx' = 0
    /\ ClearRow
    /\ ClearRun
    /\ UNCHANGED <<inputVars, metered, pc, envVars>>

\* process_google_sheet up to the row loop: both columns resolved, the sheet
\* opened and the source column read (col_values of a column the grid does
\* not have raises; the target index is not used until the first write).
StartRun ==
    LET s == column_letter_to_index(UpperStr(source_input))
        t == column_letter_to_index(UpperStr(target_input))
    IN  /\ pc = "idle"
        /\ runs < MaxRuns
        /\ AllInputs
        /\ s.ok /\ t.ok
        /\ s.index \in Cols
        /\ runs' = runs + 1
        /\ signal' = "running"
        /\ finals' = 0
        /\ total' = 0
        /\ source_column' = s.index
        /\ target_column' = t.index
        /\ texts' = col_values(sheet, s.index)
        /\ idx' = 1
        /\ pc' = "loop"
        /\ ClearRow
        /\ ClearRun
        /\ UNCHANGED <<inputVars, metered, envVars>>

\* process_google_sheet raises before the row loop (the clients cannot be
\* built, open_by_key or col_values fails): "An error occurred".
StartFails ==
    /\ pc = "idle"
    /\ runs < MaxRuns
    /\ AllInputs
    /\ runs' = runs + 1
    /\ signal' = "failure"
    /\ finals' = 1
    /\ total' = 0
    /\ source_column' = 0
    /\ target_column' = 0
    /\ texts' = <<>>
    /\ idx' = 0
    /\ ClearRow
    /\ ClearRun
    /\ UNCHANGED <<inputVars, metered, pc, envVars>>

\* An exception leaves process_google_sheet during the work of row row_num,
\* after response r, and is caught by the button handler: "An error occurred".
Abort(r) ==
    /\ pc' = "idle"
    /\ signal' = "failure"
    /\ finals' = finals + 1
    /\ last' = [row |-> row_num, resp |-> r, reports |-> {"run_error"}]
    /\ ClearRow
    /\ UNCHANGED <<inputVars, metered, runs, envVars, runVars, failedRows,
                   putRows, writtenRows>>

\* The row loop is exhausted: process_google_sheet returns, st.success.
Finish ==
    /\ pc = "loop"
    /\ LoopDone(idx, texts)
    /\ pc' = "idle"
    /\ signal' = FinalSignal(failedRows)
    /\ finals' = finals + 1
    /\ UNCHANGED <<inputVars, metered, total, runs, envVars, runVars, rowVars,
                   histVars>>

\* The next cell is empty: "Skipping empty cell at row N."
SkipEmpty ==
    /\ pc = "loop"
    /\ idx <= Len(DataCells(texts))
    /\ ~HasText(DataCells(texts)[idx])
    /\ idx' = NextIndex(idx)
    /\ last' = [row |-> RowNumber(idx), resp |-> NoResponse,
                reports |-> {"skipped"}]
    /\ UNCHANGED <<inputVars, metered, pc, signal, finals, total, runs,
                   envVars, source_column, target_column, texts, rowVars, nreq,
                   waited, reqRows, failedRows, putRows, writtenRows>>

\* The next cell holds text: generate_and_upload_tts is entered.
BeginRow ==
    /\ pc = "loop"
    /\ idx <= Len(DataCells(texts))
    /\ HasText(DataCells(texts)[idx])
    /\ row_num' = RowNumber(idx)
    /\ text' = Str(DataCells(texts)[idx])
    /\ file_name' = FileName(RowNumber(idx))
    /\ attempt' = 0
    /\ pc' = "post"
    /\ UNCHANGED <<inputVars, metered, signal, finals, total, runs, envVars,
                   runVars, resp, wait_time, s3_url, histVars>>

\* generate_and_upload_tts returns None for the current row, after response r
\* ("Maximum retries reached" is reported on every such path): the loop goes on.
FailRow(r, reports) ==
    /\ pc' = "loop"
    /\ idx' = NextIndex(idx)
    /\ failedRows' = failedRows \cup {row_num}
    /\ last' = [row |-> row_num, resp |-> r, reports |-> reports]
    /\ ClearRow
    /\ UNCHANGED <<inputVars, metered, signal, finals, runs, envVars,
                   source_column, target_column, texts, putRows, writtenRows>>

\* requests.post(...) returns 200: go on to the upload.
PostOk(r) ==
    /\ pc = "post"
    /\ attempt < max_retries
    /\ Branch(r) = "upload"
    /\ Count
    /\ resp' = r
    /\ nreq' = nreq + 1
    /\ reqRows' = reqRows \cup {row_num}
    /\ last' = NoRow
    /\ pc' = "put"
    /\ UNCHANGED <<inputVars, metered, signal, finals, runs, envVars, runVars,
                   row_num, text, file_name, attempt, wait_time, s3_url,
                   waited, failedRows, putRows, writtenRows>>

\* requests.post(...) returns 429: the wait is read from the message; then
\* the sleep, or the row is given up, or an error leaves the function.
PostRateLimited(r) ==
    /\ pc = "post"
    /\ attempt < max_retries
    /\ Branch(r) = "rate_limited"
    /\ Count
    /\ reqRows' = reqRows \cup {row_num}
    /\ LET step == RateLimitStep(r)
       IN  CASE step.outcome = "raise" -> Abort(r)
             [] step.outcome = "break" ->
                   FailRow(r, {"parse_error", "max_retries"})
             [] OTHER ->
                   /\ resp' = r
                   /\ nreq' = nreq + 1
                   /\ wait_time' = step.wait
                   /\ waited' = 0
                   /\ last' = NoRow
                   /\ pc' = "sleep"
                   /\ UNCHANGED <<inputVars, metered, signal, finals, runs,
                                  envVars, runVars, row_num, text, file_name,
                                  attempt, s3_url, failedRows, putRows,
                                  writtenRows>>

\* requests.post(...) returns any other status: "Failed with status code ...",
\* break.
PostOther(r) ==
    /\ pc = "post"
    /\ attempt < max_retries
    /\ Branch(r) = "other"
    /\ Count
    /\ reqRows' = reqRows \cup {row_num}
    /\ FailRow(r, {"api_error", "max_retries"})

\* requests.post(...) raises (connection error, timeout).
PostRaises ==
    /\ pc = "post"
    /\ attempt < max_retries
    /\ reqRows' = reqRows \cup {row_num}
    /\ Count
    /\ Abort(NoResponse)

\* time.sleep(wait_time) returns; the for loop takes its next attempt, or is
\* exhausted: "Maximum retries reached."
Sleep ==
    /\ pc = "sleep"
    /\ IF MoreAttempts(attempt)
       THEN /\ waited' = waited + SleepDuration(wait_time)
            /\ attempt' = attempt + 1
            /\ pc' = "post"
            /\ UNCHANGED <<inputVars, metered, signal, finals, total, runs,
                           envVars, runVars, row_num, text, file_name, resp,
                           wait_time, s3_url, nreq, reqRows, failedRows,
                           putRows, writtenRows, last>>
       ELSE FailRow(resp, {"max_retries"}) /\ UNCHANGED <<reqRows, total>>

\* s3_client.put_object succeeds; the URL is returned and, being non-empty,
\* is about to be written.
PutOk ==
    /\ pc = "put"
    /\ store' = put_object(store, file_name, text)
    /\ s3_url' = S3Url(file_name)
    /\ putRows' = putRows \cup {row_num}
    /\ pc' = IF Truthy(S3Url(file_name)) THEN "write" ELSE "loop"
    /\ UNCHANGED <<inputVars, metered, signal, finals, total, runs, sheet,
                   runVars, row_num, text, file_name, attempt, resp, wait_time,
                   nreq, waited, reqRows, failedRows, writtenRows, last>>

\* s3_client.put_object raises.
PutRaises ==
    /\ pc = "put"
    /\ Abort(resp)
    /\ UNCHANGED <<reqRows, total>>

\* sheet.update_cell succeeds (the grid has the target column).
WriteOk ==
    /\ pc = "write"
    /\ target_column \in Cols
    /\ sheet' = update_cell(sheet, row_num, target_column, s3_url)
    /\ texts' = TextsAfterWrite(texts, row_num, target_column, source_column,
                                s3_url)
    /\ writtenRows' = writtenRows \cup {row_num}
    /\ pc' = "loop"
    /\ idx' = NextIndex(idx)
    /\ last' = [row |-> row_num, resp |-> resp, reports |-> {}]
    /\ ClearRow
    /\ UNCHANGED <<inputVars, metered, signal, finals, total, runs, store,
                   source_column, target_column, reqRows, failedRows, putRows>>

\* sheet.update_cell raises: "Failed to update row N in Google Sheet", and the
\* loop goes on.
WriteFails ==
    /\ pc = "write"
    /\ IF WriteErrorCaught
       THEN /\ pc' = "loop"
            /\ idx' = NextIndex(idx)
            /\ last' = [row |-> row_num, resp |-> resp,
                        reports |-> {"write_error"}]
            /\ ClearRow
            /\ UNCHANGED <<inputVars, metered, signal, finals, total, runs,
                           envVars, source_column, target_column, texts,
                           reqRows, failedRows, putRows, writtenRows>>
       ELSE Abort(resp) /\ UNCHANGED <<reqRows, total>>

Next ==
    \/ MissingInputs
    \/ StartRun
    \/ StartFails
    \/ Finish
    \/ SkipEmpty
    \/ BeginRow
    \/ \E r \in Responses : PostOk(r)
    \/ \E r \in Responses : PostRateLimited(r)
    \/ \E r \in Responses : PostOther(r)
    \/ PostRaises
    \/ Sleep
    \/ PutOk
    \/ PutRaises
    \/ WriteOk
    \/ WriteFails

Spec == Init /\ [][Next]_vars

\* A step of the handler while a run is under way: the script is one thread
\* that runs the button handler to its end, and every call it waits for
\* (the request, the sleep, the put, the cell write) returns or raises.
RunStep == pc # "idle" /\ Next

\* The program with a handler that is not stopped half-way.
LiveSpec == MeteredInit /\ [][Next]_vars /\ WF_vars(RunStep)

\* ================================================================ claims
\* A row is being worked on.
InRow == pc \in {"post", "sleep", "put", "write"}

\* The data rows of the column read by this run that hold text.
NonEmptyRows == {r \in 2..Len(texts) : texts[r] # EmptyCell}

IsUrl(cell) == Len(cell) >= 1 /\ cell[1] = "https://"

\* The key a URL ends with.
KeyOfUrl(url) == SubSeq(url, 6, Len(url))

\* The row number an object key embeds (0 when it embeds none).
RowOfKey(key) ==
    IF Len(key) >= 3 /\ key[1] = "tts_audio_row" /\ key[Len(key)] = ".mp3"
    THEN LET n == ParseInt(SubSeq(key, 2, Len(key) - 1))
         IN  IF n.ok THEN n.val ELSE 0
    ELSE 0

\* C1 -- Row-level failure isolation, as the claim states it: whatever way a
\* row's work fails, the run goes on to attempt every later non-empty row, so
\* a run that has ended has issued a synthesis request for every non-empty data
\* row of the column it read.
C1_RowFailureIsolated ==
    (pc = "idle" /\ signal \in {"success", "failure"})
        => NonEmptyRows \subseteq reqRows

\* C2 -- Retry exhaustion: once max_retries requests of a row were answered
\* 429 with a parsable wait, the handler is in its last sleep, and what follows
\* it is not a request: the row is left as failed (None returned, bucket and
\* sheet untouched, "Maximum retries reached" reported) and the loop goes on
\* with the next row.
C2_LastSleep ==
    /\ nreq <= max_retries
    /\ (nreq = max_retries /\ resp.status = STATUS_RATE_LIMITED) => pc = "sleep"
    /\ pc = "post" => nreq < max_retries

C2_ExhaustedStep ==
    (pc = "sleep" /\ nreq = max_retries)
        => /\ pc' = "loop"
           /\ idx' = idx + 1
           /\ signal' = "running"
        /\ finals' = 0
           /\ store' = store
           /\ sheet' = sheet
           /\ reqRows' = reqRows
           /\ s3_url' = <<>>
           /\ last' = [row |-> row_num, resp |-> resp, reports |-> {"max_retries"}]
           /\ row_num \in failedRows'
           /\ row_num \notin putRows' \cup writtenRows'

C2_RetryExhaustion == []C2_LastSleep /\ [][C2_ExhaustedStep]_vars

\* A later row is entered after a row ran out of retries.
C2_Witness ==
    /\ pc = "post"
    /\ last.reports = {"max_retries"}
    /\ last.resp.status = STATUS_RATE_LIMITED
    /\ last.row \in failedRows
    /\ last.row < row_num

\* C3 -- Rate-limit backoff: a request that follows a 429 whose message
\* carries a wait of W seconds is issued only when at least W seconds have
\* passed since that 429, and while the handler sleeps nothing else happens:
\* no request, no upload, no sheet write, and the row stays the same.
C3_WaitedEnough ==
    /\ \A w \in 0..MaxWait :
           (pc = "post" /\ resp = Response(STATUS_RATE_LIMITED, "msg", RetryMsg(w)))
               => waited >= w
    /\ (pc = "post" /\ attempt > 0)
           => \E w \in 0..MaxWait :
                  resp = Response(STATUS_RATE_LIMITED, "msg", RetryMsg(w))

C3_SleepBlocks ==
    pc = "sleep"
        => /\ store' = store
           /\ sheet' = sheet
           /\ reqRows' = reqRows
           /\ putRows' = putRows
           /\ writtenRows' = writtenRows
           /\ \/ pc' = "post" /\ row_num' = row_num /\ nreq' = nreq
              \/ pc' = "loop" /\ nreq' = 0

C3_RateLimitBackoff == []C3_WaitedEnough /\ [][C3_SleepBlocks]_vars

\* A retry is about to be issued after the longest suggested wait.
C3_Witness ==
    /\ pc = "post"
    /\ attempt > 0
    /\ resp.message = RetryMsg(MaxWait)
    /\ waited >= MaxWait
    /\ MaxWait > 0

\* C4 -- Non-retryable API failure: a request answered with a status other
\* than 200 and 429 ends the row in the same step (no further request), with
\* bucket and sheet untouched and the API failure reported, and the loop goes
\* on with the next row; a row left this way is never worked on again.
C4_NoWorkAfterOther ==
    InRow => /\ resp.status \in {0, STATUS_OK, STATUS_RATE_LIMITED}
             /\ row_num \notin failedRows

C4_OtherStep ==
    (pc = "post" /\ last'.row = row_num
        /\ last'.resp.status \notin {0, STATUS_OK, STATUS_RATE_LIMITED})
        => /\ pc' = "loop"
           /\ idx' = idx + 1
           /\ signal' = "running"
        /\ finals' = 0
           /\ store' = store
           /\ sheet' = sheet
           /\ s3_url' = <<>>
           /\ "api_error" \in last'.reports
           /\ row_num \in failedRows'
           /\ row_num \notin putRows' \cup writtenRows'

C4_NonRetryableFailure == []C4_NoWorkAfterOther /\ [][C4_OtherStep]_vars

\* A later row is entered after a row was answered 500.
C4_Witness ==
    /\ pc = "post"
    /\ last.resp.status = 500
    /\ "api_error" \in last.reports
    /\ last.row \in failedRows
    /\ last.row < row_num

\* A 429 from which no wait can be read, in the ways C5 lists: the message is
\* absent or empty, is a single word, or has a non-integer token in the
\* second-to-last position.
NoWaitExtractable(r) ==
    /\ r.status = STATUS_RATE_LIMITED
    /\ \/ r.kind \in {"nomsg", "nullmsg"}
       \/ /\ r.kind = "msg"
          /\ LET toks == Split(r.message)
             IN  \/ Len(toks) < 2
                 \/ ~ParseInt(toks[Len(toks) - 1]).ok

\* C5 -- Unparseable rate-limit response, as the claim states it: a row whose
\* 429 yields no wait is given up with the parse failure reported, and the run
\* is not aborted.
C5_UnparseableRateLimit ==
    (last.row # 0 /\ NoWaitExtractable(last.resp))
        => /\ "parse_error" \in last.reports
           /\ "run_error" \notin last.reports
           /\ signal # "failure"

\* C6 -- Empty-cell skipping: synthesis is requested only for data rows
\* (row >= 2) whose cell holds text; when the loop has run to its end the rows
\* requested are exactly the non-empty ones; an empty cell is reported as
\* skipped, is neither requested, uploaded nor written, and leaves the run
\* going.
C6_EmptyCellSkipping ==
    /\ reqRows \subseteq NonEmptyRows
    /\ putRows \cup writtenRows \subseteq NonEmptyRows
    /\ InRow => row_num \in NonEmptyRows
    /\ signal = "success" => reqRows = NonEmptyRows
    /\ "skipped" \in last.reports
           => /\ last.row \in 2..Len(texts)
              /\ texts[last.row] = EmptyCell
              /\ last.row \notin reqRows \cup putRows \cup writtenRows
              /\ signal \in {"running", "success"}

\* The run is over for a column whose rows 2 and 4 hold text and whose row 3
\* is empty: rows 2 and 4 were requested, row 3 was not.
C6_Witness ==
    /\ signal = "success"
    /\ Len(texts) >= 4
    /\ texts[2] # EmptyCell /\ texts[3] = EmptyCell /\ texts[4] # EmptyCell
    /\ {2, 4} \subseteq reqRows
    /\ 3 \notin reqRows

\* C7 -- Header protection and row alignment: the row worked on is a data row
\* (>= 2) of the column read, the text sent is that row's cell, the key embeds
\* that row's number; row 1 never holds a written URL and every URL in the
\* sheet sits in the row its key names; every object put in this run is keyed
\* by its row and holds the audio of that row's text.
C7_RowAlignment ==
    /\ InRow => /\ row_num \in 2..Len(texts)
                /\ text = texts[row_num]
                /\ RowOfKey(file_name) = row_num
    /\ \A c \in Cols : ~IsUrl(sheet[c][1])
    /\ \A c \in Cols, r \in Rows :
           IsUrl(sheet[c][r]) => RowOfKey(KeyOfUrl(sheet[c][r])) = r
    /\ \A r \in reqRows \cup putRows \cup writtenRows : r >= 2
    /\ \A r \in writtenRows :
           /\ IsUrl(sheet[target_column][r])
           /\ RowOfKey(KeyOfUrl(sheet[target_column][r])) = r
    /\ \A r \in putRows :
           \E o \in store : RowOfKey(o.key) = r /\ o.body = texts[r]

\* A URL has just been written for a data row.
C7_Witness ==
    /\ pc = "loop"
    /\ last.row >= 2
    /\ last.row \in writtenRows
    /\ IsUrl(sheet[target_column][last.row])
    /\ RowOfKey(KeyOfUrl(sheet[target_column][last.row])) = last.row

\* C8 -- Idempotent publishing: every key in the bucket is tts_audio_row{N}.mp3
\* for a data row N, the bucket holds at most one object per row however many
\* runs were made, and an upload adds at most the key of its row: an upload
\* for a row whose key is already there leaves the set of keys as it was.
C8_OneObjectPerRow ==
    LET rows == {RowOfKey(o.key) : o \in store}
    IN  /\ rows \subseteq 2..MaxRows
        /\ Cardinality(rows) = Cardinality(store)
        /\ putRows \subseteq rows
        /\ InRow => RowOfKey(file_name) = row_num
        /\ Cardinality(store) <= MaxRows - 1

C8_UploadStep ==
    store' # store
        => /\ pc = "put"
           /\ KeysOf(store') = KeysOf(store) \cup {file_name}
           /\ file_name \in KeysOf(store) => Cardinality(store') = Cardinality(store)

C8_IdempotentPublishing == []C8_OneObjectPerRow /\ [][C8_UploadStep]_vars

\* The second run is over; it uploaded every non-empty row again (one object
\* holds the audio of a URL the first run wrote), and the bucket holds one
\* object per row.
C8_Witness ==
    /\ runs = 2
    /\ signal = "success"
    /\ putRows # {}
    /\ putRows = NonEmptyRows
    /\ \E o \in store : IsUrl(o.body)
    /\ Cardinality(store) = Cardinality(putRows)

\* C9 -- Per-row step ordering: the upload is reached only after a 200 for
\* the row, the write only after the row's upload, with the URL of the row's
\* key; the bucket changes only in an upload step and the sheet only in a
\* write step; in a run the rows written are among the rows uploaded, and no
\* row is both failed and uploaded.
C9_Ordered ==
    /\ pc = "put" => resp.status = STATUS_OK /\ row_num \notin putRows
    /\ pc = "write"
           => /\ resp.status = STATUS_OK
              /\ row_num \in putRows
              /\ IsUrl(s3_url) /\ KeyOfUrl(s3_url) = file_name
              /\ file_name \in KeysOf(store)
    /\ (InRow /\ pc # "write") => s3_url = <<>>
    /\ writtenRows \subseteq putRows
    /\ putRows \subseteq reqRows
    /\ failedRows \subseteq reqRows
    /\ failedRows \cap putRows = {}
    /\ last.row \in failedRows => last.resp.status # STATUS_OK

C9_Steps ==
    /\ store' # store => pc = "put" /\ resp.status = STATUS_OK
    /\ sheet' # sheet => pc = "write" /\ row_num \in putRows

C9_StepOrdering == []C9_Ordered /\ [][C9_Steps]_vars

\* In one run a row failed and another row was uploaded and written.
C9_Witness ==
    /\ pc = "loop"
    /\ last.row \in writtenRows
    /\ last.resp.status = STATUS_OK
    /\ failedRows # {}

\* C10 -- Distinct failure kinds, as the claim states it: "Maximum retries
\* reached" is reported only for a row whose last answer was a 429 and which
\* is reported with no other failure; an API failure and a parse failure are
\* not reported as retry exhaustion.
C10_DistinctFailureKinds ==
    /\ "max_retries" \in last.reports
           => /\ last.resp.status = STATUS_RATE_LIMITED
              /\ "api_error" \notin last.reports
              /\ "parse_error" \notin last.reports
    /\ "api_error" \in last.reports => "max_retries" \notin last.reports
    /\ "parse_error" \in last.reports => "max_retries" \notin last.reports

\* The column letters of the model's alphabet, and what the specification
\* takes for a column letter: one letter, upper or lower case.
ColumnLetters == {"A", "B"}

IsColumnLetter(s) == Len(s) = 1 /\ Upper(s[1]) \in ColumnLetters

\* The position of a column letter in the alphabet.
LetterPosition(c) == IF c = "A" THEN 1 ELSE 2

\* C11 -- Run-level abort, as the claim states it: a run pressed with a column
\* input that is not a column letter, or whose sheet could not be opened or
\* read, has done no row work (no synthesis request, no put, no cell write)
\* and does not end with the success signal.
C11_RunLevelAbort ==
    /\ (runs > 0 /\ AllInputs
          /\ ~(IsColumnLetter(source_input) /\ IsColumnLetter(target_input)))
           => /\ reqRows = {} /\ putRows = {} /\ writtenRows = {}
              /\ signal # "success"
    /\ (runs > 0 /\ AllInputs /\ idx = 0)
           => /\ reqRows = {} /\ putRows = {} /\ writtenRows = {}
              /\ signal = "failure"

\* C12 -- Column addressing, as the claim states it: an input that is empty,
\* not a letter or longer than one character makes the conversion fail, so a
\* run that got past the two conversions was given two column letters; and
\* each index it holds is its letter's position in the alphabet.
C12_ColumnAddressing ==
    signal = "running"
        => /\ IsColumnLetter(source_input) /\ IsColumnLetter(target_input)
           /\ source_column = LetterPosition(Upper(source_input[1]))
           /\ target_column = LetterPosition(Upper(target_input[1]))

\* C13 -- Single completion signal: a run pressed with all three inputs shows
\* no final signal while it works and, once it has ended, has shown exactly
\* one, success or failure; success is shown only when the loop is past the
\* last data row, every data row having been skipped (empty) or attempted.
C13_SingleCompletionSignal ==
    /\ finals <= 1
    /\ pc # "idle" => finals = 0 /\ signal = "running"
    /\ (pc = "idle" /\ runs > 0 /\ AllInputs)
           => finals = 1 /\ signal \in {"success", "failure"}
    /\ signal = "success"
           => /\ pc = "idle"
              /\ idx = Len(DataCells(texts)) + 1
              /\ \A k \in 1..Len(DataCells(texts)) :
                     \/ DataCells(texts)[k] = EmptyCell
                     \/ RowNumber(k) \in reqRows

\* A run over a column with an empty and a non-empty data row has ended with
\* its one signal, success.
C13_Witness ==
    /\ pc = "idle"
    /\ signal = "success"
    /\ finals = 1
    /\ NonEmptyRows # {}
    /\ \E r \in 2..Len(texts) : texts[r] = EmptyCell

\* C14 -- Write-back failure: a row whose audio was put in the bucket and whose
\* cell was not written (the cell write failed) is reported with the write
\* error alone, its object is still in the bucket, no failure signal is shown,
\* and the run has gone on: the loop stands at the next row, works on it, or
\* has ended with success when the row was the last one.
C14_WriteBackFailure ==
    /\ "write_error" \in last.reports => last.row \in putRows \ writtenRows
    /\ last.row \in putRows \ writtenRows
           => /\ last.reports = {"write_error"}
              /\ FileName(last.row) \in KeysOf(store)
              /\ signal \in {"running", "success"}
              /\ pc \in {"loop", "post", "idle"}
              /\ pc = "loop" => RowNumber(idx) = last.row + 1
              /\ pc = "post" => row_num = last.row + 1 /\ nreq = 0
              /\ pc = "idle" => last.row = Len(texts)

\* The cell write of a row failed and the next row is being worked on, the
\* failed row's object in the bucket.
C14_Witness ==
    /\ last.reports = {"write_error"}
    /\ pc = "post"
    /\ row_num = last.row + 1
    /\ FileName(last.row) \in KeysOf(store)

\* C15 -- Independent bounded retry counters: the synthesis requests issued for
\* a row never exceed max_retries, whatever earlier rows consumed; the attempt
\* counter stays below max_retries, counts the row's requests, and is back at
\* zero whenever no row is being worked on, so every row starts from zero.
C15_IndependentRetryCounters ==
    /\ nreq <= max_retries
    /\ attempt < max_retries
    /\ pc = "post" => nreq = attempt
    /\ pc \in {"sleep", "put", "write"} => nreq = attempt + 1
    /\ pc \in {"idle", "loop"} => nreq = 0 /\ attempt = 0

\* A later row has used all max_retries requests after an earlier row of the
\* same run was requested.
C15_Witness ==
    /\ pc = "sleep"
    /\ nreq = max_retries
    /\ \E r \in reqRows : r < row_num

\* C16 -- Retry state machine shape, as the claim states it: every rate-limit
\* wait of a row is followed by another synthesis attempt for that same row
\* (the step that ends a sleep leads to the next request of the row, never to
\* the row being given up), so a row's waits stay below its requests.
C16_WaitThenAttempt ==
    pc = "sleep"
        => /\ pc' = "post"
           /\ row_num' = row_num
           /\ attempt' < max_retries
           /\ failedRows' = failedRows

C16_RetryShape == [][C16_WaitThenAttempt]_vars

\* The rows some work was done for in this run.
WorkedRows == reqRows \cup putRows \cup writtenRows \cup failedRows

\* C17 -- Sequential ascending order: the rows worked on form a strictly
\* ascending sequence, one row at a time. While a row is worked on no worked
\* row is above it and it has not been finished before; a row is entered with
\* no request of it on record; between rows every worked row is below the row
\* the loop takes next; a put follows a request and a write follows a put.
C17_SequentialAscending ==
    /\ InRow => /\ row_num = RowNumber(idx)
                /\ \A r \in WorkedRows : r <= row_num
                /\ row_num \notin failedRows \cup writtenRows
    /\ (pc = "post" /\ attempt = 0) => row_num \notin WorkedRows
    /\ pc = "loop" => \A r \in WorkedRows : r < RowNumber(idx)
    /\ putRows \subseteq reqRows
    /\ writtenRows \subseteq putRows

\* A third row is being worked on after one row was written and one failed.
C17_Witness ==
    /\ pc = "put"
    /\ writtenRows # {}
    /\ failedRows # {}
    /\ row_num \in reqRows

\* A run under way reaches its final signal.
C18_Terminates == (signal = "running") ~> (signal \in {"success", "failure"})

\* The synthesis requests of a run number at most max_retries for each
\* non-empty data row of the column it read.
C18_RequestBound == total <= max_retries * Cardinality(NonEmptyRows)

\* C18 -- Termination: with a finite column, a finite sequence of responses
\* and finite waits, a run that is not stopped half-way eventually reaches its
\* final signal, success or failure, and has issued at most max_retries
\* synthesis requests for each non-empty data row.
C18_Termination == []C18_RequestBound /\ C18_Terminates

\* A run over two non-empty rows has ended having used every request the
\* bound allows.
C18_Witness ==
    /\ metered
    /\ pc = "idle"
    /\ signal = "success"
    /\ Cardinality(NonEmptyRows) >= 2
    /\ total = max_retries * Cardinality(NonEmptyRows)

\* C19 -- Success signal ignores row outcomes: a run with all inputs that got
\* into the row loop and has ended with no error escaping it shows success,
\* whatever rows failed and however few URLs were written; the failure signal
\* is shown only when an error escaped or the run failed before the loop.
C19_SuccessIgnoresRowOutcomes ==
    /\ (pc = "idle" /\ runs > 0 /\ AllInputs /\ idx > 0
          /\ "run_error" \notin last.reports)
           => signal = "success"
    /\ signal = "failure" => idx = 0 \/ "run_error" \in last.reports

\* A run has ended with success although every non-empty row failed synthesis:
\* nothing was put, no URL was written.
C19_Witness ==
    /\ pc = "idle"
    /\ signal = "success"
    /\ Cardinality(NonEmptyRows) >= 2
    /\ failedRows = NonEmptyRows
    /\ putRows = {}
    /\ writtenRows = {}

\* C20 -- Source snapshot: the rows synthesised and the text sent for them are
\* those of the source column as it was read before the first row, whatever
\* was written to the sheet since (the target column may be the source
\* column). The text of the row being worked on is the snapshot's cell of that
\* row; only rows the snapshot holds text for are requested; and the audio in
\* the bucket for every row put in this run was made from the snapshot's text.
C20_SourceSnapshot ==
    /\ InRow => /\ row_num <= Len(texts)
                /\ text = texts[row_num]
    /\ reqRows \subseteq NonEmptyRows
    /\ \A r \in putRows :
           [key |-> FileName(r), body |-> texts[r]] \in store

\* Target and source are the same column: a written row's cell now holds
\* something other than the snapshot does, and a later row is being worked on
\* with the snapshot's text.
C20_Witness ==
    /\ target_column = source_column
    /\ pc = "put"
    /\ text = texts[row_num]
    /\ \E r \in writtenRows :
           /\ r < row_num
           /\ sheet[source_column][r] # texts[r]

====
